---- MODULE Spec2Model ----
(***************************************************************************)
(* A model of the HR assistant's retrieval-augmented answer pipeline:      *)
(* RAGPipeline (rag_pipeline.py), LLMHandler.validate_question and the     *)
(* generate_* methods (llm_handler.py), VectorStoreManager's collection    *)
(* operations (vector_store.py) and format_documents_for_context           *)
(* (utils.py).                                                             *)
(*                                                                         *)
(* Python strings that the code inspects (questions, chunk contents,       *)
(* headers, the assembled context) are sequences of one-character strings, *)
(* so len, strip, lower, split, "in" and "\n".join are computed as Python  *)
(* computes them.  Texts the code only passes along (answers, fixed        *)
(* messages) are sequences of text segments, so that prepending and        *)
(* equality are meaningful.                                                *)
(***************************************************************************)
EXTENDS Integers, Sequences, FiniteSets, TLC

VARIABLES
    is_initialized,   \* RAGPipeline.is_initialized
    chat_history,     \* RAGPipeline.chat_history
    count,            \* number of chunks in the Chroma collection
    clock,            \* datetime.now(): one tick per recorded exchange
    last,             \* the last public call: its arguments, what it invoked, what it returned
    fmt,              \* a call of format_documents_for_context: inputs, context_parts, result
    ext,              \* a call of _extract_sources: the documents and the sources returned
    load,             \* a call of load_documents_from_directory: the directory and the pages returned
    threads,          \* calls in progress on one pipeline: the position and the locals of each
    heap              \* the list objects those calls share: which one self.chat_history refers to

vars == <<is_initialized, chat_history, count, clock, last, fmt, ext, load, threads, heap>>

(***************************************************************************)
(* Bounds of the model.                                                    *)
(***************************************************************************)
MaxCount == 2       \* chunks the collection may hold
MaxBatch == 2       \* chunks one ingest call may produce
MaxClock == 2       \* exchanges recorded in one run
MaxTranscript == 6  \* length of a caller-supplied transcript
MaxFmtDocs == 3     \* chunks handed to format_documents_for_context
MaxBudget == 130    \* largest max_length handed to format_documents_for_context
MaxExchanges == 12  \* answered queries in one run of the conversation memory
MaxSrcDocs == 4     \* chunks handed to _extract_sources
MaxFiles == 3       \* PDF files in the documents directory

(***************************************************************************)
(* Python string primitives.                                               *)
(***************************************************************************)
Min(a, b) == IF a < b THEN a ELSE b

UpperLetters ==
    <<"A","B","C","D","E","F","G","H","I","J","K","L","M",
      "N","O","P","Q","R","S","T","U","V","W","X","Y","Z">>

LowerLetters ==
    <<"a","b","c","d","e","f","g","h","i","j","k","l","m",
      "n","o","p","q","r","s","t","u","v","w","x","y","z">>

\* str.lower() on one character
LowerChar(c) ==
    IF \E i \in 1..26 : UpperLetters[i] = c
    THEN LowerLetters[CHOOSE i \in 1..26 : UpperLetters[i] = c]
    ELSE c

\* str.lower()
Lower(s) == [i \in 1..Len(s) |-> LowerChar(s[i])]

\* str.isspace() on one character
IsSpace(c) == c \in {" ", "\t", "\n", "\r"}

\* str.strip(): drop the leading and the trailing whitespace
Strip(s) ==
    LET keep == {i \in 1..Len(s) : ~IsSpace(s[i])}
    IN  IF keep = {} THEN <<>>
        ELSE LET lo == CHOOSE i \in keep : \A j \in keep : i <= j
                 hi == CHOOSE i \in keep : \A j \in keep : j <= i
             IN  SubSeq(s, lo, hi)

\* sub in s
Contains(s, sub) ==
    \E i \in 1..(Len(s) - Len(sub) + 1) : SubSeq(s, i, i + Len(sub) - 1) = sub

\* len(s.split()): the number of maximal runs of non-whitespace
WordCount(s) ==
    Cardinality({i \in 1..Len(s) : ~IsSpace(s[i]) /\ (i = 1 \/ IsSpace(s[i - 1]))})

DigitChars == <<"0","1","2","3","4","5","6","7","8","9">>

\* str(n) for a natural number
RECURSIVE Str(_)
Str(n) == IF n < 10 THEN <<DigitChars[n + 1]>>
          ELSE Str(n \div 10) \o <<DigitChars[(n % 10) + 1]>>

\* sep.join(parts)
RECURSIVE Join(_, _)
Join(parts, sep) ==
    IF parts = <<>> THEN <<>>
    ELSE IF Len(parts) = 1 THEN parts[1]
    ELSE parts[1] \o sep \o Join(Tail(parts), sep)

\* c repeated n times
Rep(c, n) == [i \in 1..n |-> c]

\* dict.get(key, default)
MetaGet(metadata, key, default) ==
    IF key \in DOMAIN metadata THEN metadata[key] ELSE default

(***************************************************************************)
(* utils.format_documents_for_context                                      *)
(***************************************************************************)
DefaultMaxLength == 4000

HeaderOpen == <<"\n","-","-","-"," ","D","o","c","u","m","e","n","t"," ">>

HeaderColon == <<":"," ">>

HeaderPage == <<" ","(","P","a","g","e"," ">>

HeaderClose == <<")"," ","-","-","-","\n">>

TruncationMarker ==
    <<"\n",".",".","."," ","(","A","d","d","i","t","i","o","n","a","l"," ",
      "d","o","c","u","m","e","n","t","s"," ","t","r","u","n","c","a","t","e","d"," ",
      "d","u","e"," ","t","o"," ","l","e","n","g","t","h"," ","l","i","m","i","t",")",
      " ",".",".",".">>

NoDocumentsText ==
    <<"N","o"," ","r","e","l","e","v","a","n","t"," ","d","o","c","u","m","e","n","t","s",
      " ","f","o","u","n","d",".">>

UnknownSource == <<"U","n","k","n","o","w","n"," ","S","o","u","r","c","e">>

NotAvailable == <<"N","/","A">>

\* the header of the i-th document (i counts from 1, the code's i + 1)
DocHeader(doc, i) ==
    LET source == MetaGet(doc.metadata, "source_file", UnknownSource)
        page == IF "page" \in DOMAIN doc.metadata
                THEN Str(doc.metadata["page"]) ELSE NotAvailable
    IN  HeaderOpen \o Str(i) \o HeaderColon \o source \o HeaderPage \o page \o HeaderClose

\* content = doc.page_content.strip()
DocContent(doc) == Strip(doc.page_content)

\* the budget compared with the document alone, not with the running total
OverBudget_NoRunningTotal(current_length, addition_length, max_length, context_parts) ==
    addition_length > max_length /\ context_parts # <<>>

\* the budget never checked
OverBudget_Never(current_length, addition_length, max_length, context_parts) == FALSE

\* the budget checked for the first document too
OverBudget_FirstToo(current_length, addition_length, max_length, context_parts) ==
    current_length + addition_length > max_length

\* whether the loop stops at a document instead of appending it
OverBudget(current_length, addition_length, max_length, context_parts) ==
    current_length + addition_length > max_length /\ context_parts # <<>>

\* the loop going on after the truncation marker (continue instead of break)
RECURSIVE FormatLoop_Continue(_, _, _, _, _)
FormatLoop_Continue(documents, max_length, i, context_parts, current_length) ==
    IF i > Len(documents) THEN context_parts
    ELSE LET header == DocHeader(documents[i], i)
             content == DocContent(documents[i])
             addition_length == Len(header) + Len(content)
         IN  IF current_length + addition_length > max_length /\ context_parts # <<>>
             THEN FormatLoop_Continue(documents, max_length, i + 1,
                                      Append(context_parts, TruncationMarker),
                                      current_length)
             ELSE FormatLoop_Continue(documents, max_length, i + 1,
                                      Append(context_parts, header \o content),
                                      current_length + addition_length)

\* the for loop, from document i on: the final context_parts
RECURSIVE FormatLoop(_, _, _, _, _)
FormatLoop(documents, max_length, i, context_parts, current_length) ==
    IF i > Len(documents) THEN context_parts
    ELSE LET header == DocHeader(documents[i], i)
             content == DocContent(documents[i])
             addition_length == Len(header) + Len(content)
         IN  IF OverBudget(current_length, addition_length, max_length, context_parts)
             THEN Append(context_parts, TruncationMarker)
             ELSE FormatLoop(documents, max_length, i + 1,
                             Append(context_parts, header \o content),
                             current_length + addition_length)

\* context_parts when the function returns (empty for no documents)
ContextParts(documents, max_length) ==
    IF documents = <<>> THEN <<>>
    ELSE FormatLoop(documents, max_length, 1, <<>>, 0)

format_documents_for_context(documents, max_length) ==
    IF documents = <<>> THEN NoDocumentsText
    ELSE Join(ContextParts(documents, max_length), <<"\n">>)

(***************************************************************************)
(* Calls of format_documents_for_context on their own: the documents and   *)
(* max_length are drawn when the run starts, FormatCall applies the        *)
(* function.                                                               *)
(***************************************************************************)
\* all sequences over S of length at most n
SeqsUpTo(S, n) == UNION {[1..k -> S] : k \in 0..n}

FileA == <<"a",".","p","d","f">>

FileHR == <<"h","r",".","p","d","f">>

\* retrieved chunks of different header and content lengths; contents carry
\* leading and trailing whitespace, one is whitespace only, one has no metadata
FmtPool ==
    { [metadata |-> [source_file |-> FileA, page |-> 0],
       page_content |-> <<" "," ">> \o Rep("x", 2) \o <<" ","\n">>],
      [metadata |-> [source_file |-> FileHR, page |-> 12],
       page_content |-> Rep("y", 10)],
      [metadata |-> <<>>,
       page_content |-> <<"\n"," ","\t">>],
      [metadata |-> [source_file |-> FileA, page |-> 3],
       page_content |-> Rep("z", 24) \o <<"\n">>] }

FmtIdle == [pc |-> "idle", documents |-> <<>>, max_length |-> 0,
            context_parts |-> <<>>, out |-> <<>>]

FormatCall ==
    /\ fmt.pc = "call"
    /\ fmt' = [fmt EXCEPT !.pc = "done",
                          !.context_parts = ContextParts(fmt.documents, fmt.max_length),
                          !.out = format_documents_for_context(fmt.documents, fmt.max_length)]
    /\ UNCHANGED <<is_initialized, chat_history, count, clock, last, ext, load, threads, heap>>

(***************************************************************************)
(* LLMHandler.validate_question                                            *)
(***************************************************************************)
DetailMessage ==
    <<"Please provide a more detailed question about HR policies or procedures.">>

LegitimateMessage == <<"I can only assist with legitimate HR policy questions.">>

ScopeReminder ==
    <<"I'll do my best to help with your question. For the most accurate information, please ensure your question relates to HR policies or workplace procedures.">>

inappropriate_keywords ==
    { <<"h","a","c","k">>,
      <<"b","y","p","a","s","s">>,
      <<"i","l","l","e","g","a","l">>,
      <<"f","r","a","u","d">> }

hr_keywords ==
    { <<"p","o","l","i","c","y">>,
      <<"l","e","a","v","e">>,
      <<"v","a","c","a","t","i","o","n">>,
      <<"s","i","c","k">>,
      <<"b","e","n","e","f","i","t","s">>,
      <<"s","a","l","a","r","y">>,
      <<"p","r","o","m","o","t","i","o","n">>,
      <<"t","r","a","i","n","i","n","g">>,
      <<"p","e","r","f","o","r","m","a","n","c","e">>,
      <<"d","i","s","c","i","p","l","i","n","a","r","y">>,
      <<"h","a","r","a","s","s","m","e","n","t">>,
      <<"c","o","m","p","l","i","a","n","c","e">>,
      <<"o","n","b","o","a","r","d","i","n","g">>,
      <<"t","e","r","m","i","n","a","t","i","o","n">>,
      <<"r","e","s","i","g","n","a","t","i","o","n">>,
      <<"h","r">>,
      <<"h","u","m","a","n"," ","r","e","s","o","u","r","c","e","s">>,
      <<"e","m","p","l","o","y","e","e">>,
      <<"w","o","r","k","p","l","a","c","e">>,
      <<"c","o","d","e"," ","o","f"," ","c","o","n","d","u","c","t">>,
      <<"e","t","h","i","c","s">> }

\* not question or len(question.strip()) < 3
TooShort(question) == question = <<>> \/ Len(Strip(question)) < 3

\* the keywords searched in the question as typed, not in question.lower()
HasInappropriateKeyword_CaseSensitive(question) ==
    \E keyword \in inappropriate_keywords : Contains(question, keyword)

\* some inappropriate keyword occurs in question.lower()
HasInappropriateKeyword(question) ==
    \E keyword \in inappropriate_keywords : Contains(Lower(question), keyword)

has_hr_keyword(question) ==
    \E keyword \in hr_keywords : Contains(Lower(question), keyword)

\* the (is_valid, message) pair
validate_question(question) ==
    IF TooShort(question)
    THEN [is_valid |-> FALSE, message |-> DetailMessage]
    ELSE IF HasInappropriateKeyword(question)
    THEN [is_valid |-> FALSE, message |-> LegitimateMessage]
    ELSE IF ~has_hr_keyword(question) /\ WordCount(question) > 3
    THEN [is_valid |-> TRUE, message |-> ScopeReminder]
    ELSE [is_valid |-> TRUE, message |-> <<>>]

(***************************************************************************)
(* LLMHandler.generate_response / generate_followup_response               *)
(* The backend call either returns a text or raises; `generation` is what  *)
(* it does in this call.                                                   *)
(***************************************************************************)
\* _get_error_response: the same text whatever the error
ErrorResponse ==
    <<"I apologize, but I'm experiencing technical difficulties at the moment.">>

\* a second llm.invoke after the first one raised
Invoke_RetryOnFailure(generation) ==
    [text |-> IF generation.raises THEN ErrorResponse ELSE generation.text,
     invocations |-> IF generation.raises THEN 2 ELSE 1]

\* the try block around llm.invoke(messages): the text the method returns and
\* the number of times it called the backend
Invoke(generation) ==
    [text |-> IF generation.raises THEN ErrorResponse ELSE generation.text,
     invocations |-> 1]

\* what reaches the backend (prompt), what the method returns (text) and how
\* often it called the backend
generate_response(question, context, generation) ==
    [prompt |-> [question |-> question, context |-> context, history |-> <<>>],
     text |-> Invoke(generation).text,
     invocations |-> Invoke(generation).invocations]

\* s[-n:]
LastN(s, n) == IF Len(s) <= n THEN s ELSE SubSeq(s, Len(s) - n + 1, Len(s))

\* the exchanges written after the context: chat_history[-3:], question and answer of each
HistoryContext(history) ==
    LET window == LastN(history, 3)
    IN  [i \in 1..Len(window) |->
            [question |-> window[i].question, answer |-> window[i].answer]]

generate_followup_response(question, context, history, generation) ==
    [prompt |-> [question |-> question, context |-> context,
                 history |-> HistoryContext(history)],
     text |-> Invoke(generation).text,
     invocations |-> Invoke(generation).invocations]

(***************************************************************************)
(* RAGPipeline._extract_sources                                            *)
(***************************************************************************)
Ellipsis == <<".",".",".">>

UnknownFile == <<"U","n","k","n","o","w","n">>

SourceFileOf(doc) == MetaGet(doc.metadata, "source_file", UnknownFile)

\* str(page_num)
PageOf(doc) ==
    IF "page" \in DOMAIN doc.metadata THEN Str(doc.metadata["page"]) ELSE NotAvailable

\* the identifier made of the file alone
SourceId_FileOnly(doc) == SourceFileOf(doc)

\* f"{source_file}_{page_num}"
SourceId(doc) == SourceFileOf(doc) \o <<"_">> \o PageOf(doc)

\* the ellipsis added from 200 characters on (>= instead of >)
ContentPreview_From200(page_content) ==
    IF Len(page_content) >= 200
    THEN SubSeq(page_content, 1, 200) \o Ellipsis
    ELSE page_content

ContentPreview(page_content) ==
    IF Len(page_content) > 200
    THEN SubSeq(page_content, 1, 200) \o Ellipsis
    ELSE page_content

RECURSIVE ExtractLoop(_, _, _, _)
ExtractLoop(documents, i, sources, seen_sources) ==
    IF i > Len(documents) THEN sources
    ELSE LET doc == documents[i]
         IN  IF SourceId(doc) \notin seen_sources
             THEN ExtractLoop(documents, i + 1,
                              Append(sources, [file |-> SourceFileOf(doc),
                                               page |-> PageOf(doc),
                                               content_preview |-> ContentPreview(doc.page_content)]),
                              seen_sources \cup {SourceId(doc)})
             ELSE ExtractLoop(documents, i + 1, sources, seen_sources)

_extract_sources(documents) == ExtractLoop(documents, 1, <<>>, {})

ExtIdle == [pc |-> "idle", documents |-> <<>>, sources |-> <<>>]

\* no call of load_documents_from_directory, no call in progress, no shared list
LoadIdle == [pc |-> "idle", exists |-> FALSE, pdf_files |-> <<>>, all_documents |-> <<>>]

NoThreads == <<>>

NoHeap == <<>>

\* a call of _extract_sources on the documents drawn when the run starts
ExtractCall ==
    /\ ext.pc = "call"
    /\ ext' = [ext EXCEPT !.pc = "done", !.sources = _extract_sources(ext.documents)]
    /\ UNCHANGED <<is_initialized, chat_history, count, clock, last, fmt, load, threads, heap>>

(***************************************************************************)
(* VectorStoreManager: the collection is its number of chunks.  Each call  *)
(* of the Chroma client either succeeds or raises; the outcome is an       *)
(* argument.                                                               *)
(***************************************************************************)
MAX_RETRIEVAL_DOCS == 4

\* add_documents of n chunks: all are stored, or the call raises after storing
\* fewer than n
add_documents(cnt, n, add) ==
    IF n = 0 THEN [count |-> cnt, raises |-> FALSE]
    ELSE IF add.raises THEN [count |-> cnt + Min(add.kept, n - 1), raises |-> TRUE]
    ELSE [count |-> cnt + n, raises |-> FALSE]

\* delete_collection: client.delete_collection then _initialize_vectorstore;
\* either may raise, and the exception is raised again
delete_collection(cnt, del) ==
    IF del = "ok" THEN [count |-> 0, raises |-> FALSE]
    ELSE IF del = "delete_raises" THEN [count |-> cnt, raises |-> TRUE]
    ELSE [count |-> 0, raises |-> TRUE]

\* update_documents: delete_collection, then add_documents
update_documents(cnt, n, del, add) ==
    LET d == delete_collection(cnt, del)
    IN  IF d.raises THEN d ELSE add_documents(d.count, n, add)

\* get_collection_count: 0 when the client raises
get_collection_count(cnt, count_ok) == IF count_ok THEN cnt ELSE 0

check_vectorstore_ready(cnt, count_ok) == get_collection_count(cnt, count_ok) > 0

(***************************************************************************)
(* The environment of one call: the questions asked, what the document     *)
(* processor, the Chroma client, the retriever and the backend do.         *)
(***************************************************************************)
Questions ==
    { <<>>,
      <<" "," "," ">>,
      <<" ","h","i"," ">>,
      <<"h","o","w"," ","t","o"," ","H","a","c","k"," ","p","a","y","r","o","l","l">>,
      <<"b","y","p","a","s","s"," ","l","e","a","v","e"," ","p","o","l","i","c","y">>,
      <<"s","i","c","k"," ","l","e","a","v","e">>,
      <<"h","o","w"," ","d","o"," ","I"," ","b","a","k","e"," ","f","r","e","s","h"," ","b","r","e","a","d">>,
      <<"b","a","k","e"," ","a"," ","c","a","k","e">> }

ProcOutcomes ==
    {[raises |-> TRUE, n |-> 0]} \cup {[raises |-> FALSE, n |-> n] : n \in 0..MaxBatch}

AddOutcomes ==
    {[raises |-> FALSE, kept |-> 0]}
        \cup {[raises |-> TRUE, kept |-> k] : k \in 0..(MaxBatch - 1)}

DelOutcomes == {"ok", "delete_raises", "reinit_raises"}

\* the chunks a retrieval may return
RetrievalPool ==
    { [metadata |-> [source_file |-> FileA, page |-> 0],
       page_content |-> <<" ","l","e","a","v","e","\n">>],
      [metadata |-> [source_file |-> FileHR, page |-> 12],
       page_content |-> <<"p","a","y">>] }

\* retriever.invoke: raises, or returns the k nearest chunks of the collection
Retrievals(cnt) ==
    {[raises |-> TRUE, docs |-> <<>>]}
        \cup {[raises |-> FALSE, docs |-> d] :
                d \in [1..Min(cnt, MAX_RETRIEVAL_DOCS) -> RetrievalPool]}

GeneratedText == <<"<generated answer>">>

Generations ==
    {[raises |-> TRUE, text |-> <<>>], [raises |-> FALSE, text |-> GeneratedText]}

\* the query of a document search and the max_results it is made with
\* (0, a single result, the default)
SearchQuery == <<"l","e","a","v","e">>

MaxResults == {0, 1, 5}

\* a caller's transcript of n exchanges, oldest first
Transcript(n) ==
    [i \in 1..n |-> [question |-> <<"q">> \o Str(i), answer |-> <<"a">> \o Str(i)]]

\* an empty transcript, a short one and one longer than any window taken of it
Transcripts == {Transcript(n) : n \in {0, 1, MaxTranscript}}

(***************************************************************************)
(* The pure steps of query, tabulated over the inputs of the model.        *)
(***************************************************************************)
RetrievedDocs == UNION {{r.docs : r \in Retrievals(c)} : c \in 0..MaxCount}

ValidationOf == [question \in Questions |-> validate_question(question)]

ContextOf ==
    [docs \in RetrievedDocs |-> format_documents_for_context(docs, DefaultMaxLength)]

SourcesOf == [docs \in RetrievedDocs |-> _extract_sources(docs)]

(***************************************************************************)
(* RAGPipeline                                                             *)
(***************************************************************************)
NotReadyAnswer ==
    <<"The HR Assistant is not ready yet. Please ensure HR documents have been loaded.">>

NoResultsAnswer ==
    <<"I couldn't find relevant information in the HR documents to answer your question. Please try rephrasing your question or contact HR directly for assistance.">>

QueryErrorAnswer ==
    <<"I encountered an error while processing your question. Please try again or contact HR directly.">>

\* str(e) of an exception raised by the retriever
RawErrorText == "<text of the exception>"

\* a returned dict: the keys it has and their values (defaults for absent keys)
Result(keys, answer, sources, error, warning, n) ==
    [keys |-> keys, answer |-> answer, sources |-> sources, error |-> error,
     warning |-> warning, retrieved_docs_count |-> n]

NoResult == Result({}, <<>>, <<>>, "", "", 0)

NoPrompt == [question |-> <<>>, context |-> <<>>, history |-> <<>>]

\* the cut keeping the first 10 exchanges (chat_history[:10])
AppendExchange_KeepOldest(history, question, answer, now) ==
    LET appended == Append(history, [question |-> question, answer |-> answer,
                                     timestamp |-> now])
    IN  IF Len(appended) > 10 THEN SubSeq(appended, 1, 10) ELSE appended

\* chat_history.append(...) and the cut to the last 10
AppendExchange(history, question, answer, now) ==
    LET appended == Append(history, [question |-> question, answer |-> answer,
                                     timestamp |-> now])
    IN  IF Len(appended) > 10 THEN LastN(appended, 10) ELSE appended

\* the readiness check left out
NotReady_Never(self) == FALSE

\* if not self.is_initialized
NotReady(self) == ~self.is_initialized

\* the validation verdict ignored
Rejected_Never(v) == FALSE

\* only the too-short questions turned away
Rejected_OnlyTooShort(v) == ~v.is_valid /\ v.message = DetailMessage

\* if not is_valid
Rejected(v) == ~v.is_valid

\* the empty-retrieval check left out
NoDocuments_Never(retrieved_docs) == FALSE

\* if not retrieved_docs
NoDocuments(retrieved_docs) == retrieved_docs = <<>>

\* what a query call leaves behind: the returned dict, the stages it invoked in
\* order, what the retriever did and returned, the text the generate_* method
\* returned and the prompt that reached the backend, chat_history and the clock
\* escaped: whether an exception leaves the method instead of a returned value
QueryOutcome(ret, trace, retrieved, docs, response, history, now) ==
    [ret |-> ret, trace |-> trace, retrieved |-> retrieved, docs |-> docs,
     response |-> response.text, prompt |-> response.prompt,
     invocations |-> response.invocations,
     chat_history |-> history, clock |-> now, escaped |-> FALSE]

\* the exception raised again once the handler has run
Except_Reraise(handled) == [handled EXCEPT !.escaped = TRUE]

\* except Exception as e: what the handler leaves and returns is the outcome
\* of the method, and the exception ends there
Except(handled) == handled

NoResponse == [text |-> <<>>, prompt |-> NoPrompt, invocations |-> 0]

\* query(question, include_sources) on a pipeline whose fields are self;
\* retrieval and generation are what the retriever and the backend do in this call
query(self, question, include_sources, retrieval, generation) ==
    IF NotReady(self)
    THEN QueryOutcome(
            Result({"answer", "sources", "error"}, NotReadyAnswer, <<>>,
                   "System not initialized", "", 0),
            <<>>, "none", <<>>, NoResponse, self.chat_history, self.clock)
    ELSE LET v == ValidationOf[question]
         IN
         IF Rejected(v)
         THEN QueryOutcome(
                 Result({"answer", "sources", "error"}, v.message, <<>>,
                        "Invalid question", "", 0),
                 <<"validate">>, "none", <<>>, NoResponse, self.chat_history, self.clock)
         ELSE IF retrieval.raises
         THEN Except(QueryOutcome(
                 Result({"answer", "sources", "error"}, QueryErrorAnswer, <<>>,
                        RawErrorText, "", 0),
                 <<"validate", "retrieve">>, "raised", <<>>, NoResponse,
                 self.chat_history, self.clock))
         ELSE IF NoDocuments(retrieval.docs)
         THEN QueryOutcome(
                 Result({"answer", "sources", "warning"}, NoResultsAnswer, <<>>,
                        "", "No relevant documents found", 0),
                 <<"validate", "retrieve">>, "returned", retrieval.docs, NoResponse,
                 self.chat_history, self.clock)
         ELSE LET context == ContextOf[retrieval.docs]
                  response ==
                      IF self.chat_history # <<>>
                      THEN generate_followup_response(question, context,
                                                      self.chat_history, generation)
                      ELSE generate_response(question, context, generation)
                  sources == IF include_sources THEN SourcesOf[retrieval.docs]
                             ELSE <<>>
              IN  QueryOutcome(
                     Result({"answer", "sources", "retrieved_docs_count", "success"},
                            response.text, sources, "", "", Len(retrieval.docs)),
                     <<"validate", "retrieve", "assemble", "generate", "record">>,
                     "returned", retrieval.docs, response,
                     AppendExchange(self.chat_history, question, response.text, self.clock),
                     self.clock + 1)

\* the caller's list itself bound to self.chat_history
SwapIn_NoCopy(conversation_history) ==
    [list |-> conversation_history, shared |-> TRUE]

\* conversation_history[-5:]: a new list, not shared with the caller
SwapIn(conversation_history) ==
    [list |-> LastN(conversation_history, 5), shared |-> FALSE]

\* the caller's exchanges put behind the pipeline's own instead of replacing them
query_with_history_Merged(self, question, conversation_history, retrieval, generation) ==
    LET original_history == self.chat_history
        swapped == [self EXCEPT !.chat_history =
                                    original_history \o LastN(conversation_history, 5)]
        r == query(swapped, question, TRUE, retrieval, generation)
    IN  [r EXCEPT !.chat_history = original_history]
            @@ [conversation_history |-> conversation_history]

\* query_with_history: chat_history is swapped for conversation_history[-5:]
\* during the query and restored in the finally clause; conversation_history
\* in the outcome is the caller's list as the call leaves it
query_with_history(self, question, conversation_history, retrieval, generation) ==
    LET original_history == self.chat_history
        swap == SwapIn(conversation_history)
        swapped == [self EXCEPT !.chat_history = swap.list]
        r == query(swapped, question, TRUE, retrieval, generation)
    IN  [r EXCEPT !.chat_history = original_history]
            @@ [conversation_history |-> IF swap.shared THEN r.chat_history
                                         ELSE conversation_history]

\* the outcome of a knowledge-base operation: the fields it leaves and its return value
KbOutcome(ready, history, cnt, ret) ==
    [is_initialized |-> ready, chat_history |-> history, count |-> cnt, ret |-> ret,
     escaped |-> FALSE]

\* proc: what process_documents does (raises, or yields proc.n chunks)
initialize_knowledge_base(self, proc, add, count_ok) ==
    IF proc.raises
    THEN Except(KbOutcome(FALSE, self.chat_history, self.count, FALSE))
    ELSE IF proc.n = 0
    THEN KbOutcome(self.is_initialized, self.chat_history, self.count, FALSE)
    ELSE LET a == add_documents(self.count, proc.n, add)
         IN  IF a.raises
             THEN Except(KbOutcome(FALSE, self.chat_history, a.count, FALSE))
             ELSE IF ~check_vectorstore_ready(a.count, count_ok)
             THEN KbOutcome(self.is_initialized, self.chat_history, a.count, FALSE)
             ELSE KbOutcome(TRUE, self.chat_history, a.count, TRUE)

\* proc: what process_single_file does
add_document(self, proc, add, count_ok) ==
    IF proc.raises
    THEN Except(KbOutcome(self.is_initialized, self.chat_history, self.count, FALSE))
    ELSE IF proc.n = 0
    THEN KbOutcome(self.is_initialized, self.chat_history, self.count, FALSE)
    ELSE LET a == add_documents(self.count, proc.n, add)
         IN  IF a.raises
             THEN Except(KbOutcome(self.is_initialized, self.chat_history, a.count,
                                   FALSE))
             ELSE KbOutcome(check_vectorstore_ready(a.count, count_ok),
                            self.chat_history, a.count, TRUE)

\* the flag left as it was by a successful reset
reset_knowledge_base_KeepsFlag(self, del) ==
    LET d == delete_collection(self.count, del)
    IN  IF d.raises
        THEN Except(KbOutcome(self.is_initialized, self.chat_history, d.count, FALSE))
        ELSE KbOutcome(self.is_initialized, <<>>, d.count, TRUE)

reset_knowledge_base(self, del) ==
    LET d == delete_collection(self.count, del)
    IN  IF d.raises
        THEN Except(KbOutcome(self.is_initialized, self.chat_history, d.count, FALSE))
        ELSE KbOutcome(FALSE, <<>>, d.count, TRUE)

\* the collection replaced before the check for an empty document list
update_knowledge_base_DeleteFirst(self, proc, del, add) ==
    IF proc.raises
    THEN Except(KbOutcome(self.is_initialized, self.chat_history, self.count, FALSE))
    ELSE LET u == update_documents(self.count, proc.n, del, add)
         IN  IF u.raises
             THEN Except(KbOutcome(self.is_initialized, self.chat_history, u.count,
                                   FALSE))
             ELSE IF proc.n = 0
             THEN KbOutcome(self.is_initialized, self.chat_history, u.count, FALSE)
             ELSE KbOutcome(TRUE, <<>>, u.count, TRUE)

update_knowledge_base(self, proc, del, add) ==
    IF proc.raises
    THEN Except(KbOutcome(self.is_initialized, self.chat_history, self.count, FALSE))
    ELSE IF proc.n = 0
    THEN KbOutcome(self.is_initialized, self.chat_history, self.count, FALSE)
    ELSE LET u == update_documents(self.count, proc.n, del, add)
         IN  IF u.raises
             THEN Except(KbOutcome(self.is_initialized, self.chat_history, u.count,
                                   FALSE))
             ELSE KbOutcome(TRUE, <<>>, u.count, TRUE)

clear_chat_history(self) ==
    KbOutcome(self.is_initialized, <<>>, self.count, TRUE)

\* the returned dict; get_collection_info and get_model_info raise nothing
get_knowledge_base_info(self, count_ok) ==
    [info |-> [is_initialized |-> self.is_initialized,
               document_count |-> get_collection_count(self.count, count_ok),
               chat_history_length |-> Len(self.chat_history)],
     escaped |-> FALSE]

\* similarity_search_with_score(query, k): k = k or Config.MAX_RETRIEVAL_DOCS;
\* raises, or returns the k nearest chunks of the collection
Searches(cnt, max_results) ==
    LET k == IF max_results = 0 THEN MAX_RETRIEVAL_DOCS ELSE max_results
    IN  {[raises |-> TRUE, docs |-> <<>>]}
            \cup {[raises |-> FALSE, docs |-> d] :
                    d \in [1..Min(cnt, k) -> RetrievalPool]}

SearchContent(page_content) ==
    IF Len(page_content) > 300
    THEN SubSeq(page_content, 1, 300) \o Ellipsis
    ELSE page_content

\* search: what similarity_search_with_score does in this call
search_documents(self, search) ==
    IF ~self.is_initialized
    THEN [results |-> <<>>, escaped |-> FALSE]
    ELSE IF search.raises
    THEN Except([results |-> <<>>, escaped |-> FALSE])
    ELSE [results |-> [i \in 1..Len(search.docs) |->
                          [content |-> SearchContent(search.docs[i].page_content),
                           source_file |-> SourceFileOf(search.docs[i]),
                           page |-> PageOf(search.docs[i])]],
          escaped |-> FALSE]

Self == [is_initialized |-> is_initialized, chat_history |-> chat_history,
         count |-> count, clock |-> clock]

NoInfo == [is_initialized |-> FALSE, document_count |-> 0, chat_history_length |-> 0]

\* the record of a call: transcript_after is the caller's list when the call
\* has returned, processed what document processing did ("raised", "nothing",
\* "chunks"), ok is the returned bool of a knowledge-base operation,
\* info the dict of get_knowledge_base_info, results the list of search_documents
Call(op, question, transcript, ok, escaped, r) ==
    [op |-> op, question |-> question, transcript |-> transcript,
     transcript_after |-> transcript, processed |-> "none",
     ready |-> is_initialized, ok |-> ok, escaped |-> escaped,
     info |-> NoInfo, results |-> <<>>,
     ret |-> r.ret, trace |-> r.trace, retrieved |-> r.retrieved, docs |-> r.docs,
     response |-> r.response, prompt |-> r.prompt, invocations |-> r.invocations]

\* the fields of a call record that only a query fills
NoQuery ==
    [ret |-> NoResult, trace |-> <<>>, retrieved |-> "none", docs |-> <<>>,
     response |-> <<>>, prompt |-> NoPrompt, invocations |-> 0]

NoCall == [op |-> "none", question |-> <<>>, transcript |-> <<>>,
           transcript_after |-> <<>>, processed |-> "none", ready |-> FALSE,
           ok |-> FALSE, escaped |-> FALSE, info |-> NoInfo, results |-> <<>>]
              @@ NoQuery

\* the state after RAGPipeline(): the persisted collection may hold chunks
Init ==
    /\ is_initialized = FALSE
    /\ chat_history = <<>>
    /\ count \in 0..MaxCount
    /\ clock = 0
    /\ last = NoCall
    /\ fmt = FmtIdle
    /\ ext = ExtIdle
    /\ load = LoadIdle
    /\ threads = NoThreads
    /\ heap = NoHeap

\* what process_documents / process_single_file did
Processed(proc) ==
    IF proc.raises THEN "raised" ELSE IF proc.n = 0 THEN "nothing" ELSE "chunks"

KbCall(op, processed, r) ==
    /\ is_initialized' = r.is_initialized
    /\ chat_history' = r.chat_history
    /\ count' = r.count
    /\ last' = [Call(op, <<>>, <<>>, r.ret, r.escaped, NoQuery) EXCEPT
                    !.processed = processed]
    /\ UNCHANGED <<clock, fmt, ext, load, threads, heap>>

\* the Chroma client answers the calls an ingest makes: add_documents is
\* called with the n chunks processing produced and keeps fewer than n when it
\* raises, the count is read once they are stored
Produced(proc) == ~proc.raises /\ proc.n > 0

AddOutcomesFor(invoked, n) ==
    IF invoked THEN {add \in AddOutcomes : add.kept < n} ELSE {[raises |-> FALSE, kept |-> 0]}

CountOutcomesFor(invoked) == IF invoked THEN BOOLEAN ELSE {TRUE}

DelOutcomesFor(invoked) == IF invoked THEN DelOutcomes ELSE {"ok"}

InitializeKnowledgeBase ==
    \E proc \in ProcOutcomes :
    \E add \in AddOutcomesFor(Produced(proc), proc.n) :
    \E count_ok \in CountOutcomesFor(Produced(proc) /\ ~add.raises) :
        /\ count + proc.n <= MaxCount
        /\ KbCall("initialize_knowledge_base", Processed(proc),
                  initialize_knowledge_base(Self, proc, add, count_ok))

AddDocument ==
    \E proc \in ProcOutcomes :
    \E add \in AddOutcomesFor(Produced(proc), proc.n) :
    \E count_ok \in CountOutcomesFor(Produced(proc) /\ ~add.raises) :
        /\ count + proc.n <= MaxCount
        /\ KbCall("add_document", Processed(proc),
                  add_document(Self, proc, add, count_ok))

ResetKnowledgeBase ==
    \E del \in DelOutcomes :
        KbCall("reset_knowledge_base", "none", reset_knowledge_base(Self, del))

UpdateKnowledgeBase ==
    \E proc \in ProcOutcomes :
    \E del \in DelOutcomesFor(Produced(proc)) :
    \E add \in AddOutcomesFor(Produced(proc) /\ del = "ok", proc.n) :
        /\ proc.n <= MaxCount
        /\ KbCall("update_knowledge_base", Processed(proc),
                  update_knowledge_base(Self, proc, del, add))

ClearChatHistory == KbCall("clear_chat_history", "none", clear_chat_history(Self))

\* the flag cleared when the retriever raised
KnowledgeBaseAfter_ClearedOnError(self, r) ==
    [is_initialized |-> self.is_initialized /\ r.retrieved # "raised",
     count |-> self.count]

\* what an answer call leaves of the knowledge base: query assigns nothing to
\* is_initialized and only reads the collection through the retriever
KnowledgeBaseAfter(self, r) ==
    [is_initialized |-> self.is_initialized, count |-> self.count]

QueryCall(op, question, transcript, r) ==
    /\ is_initialized' = KnowledgeBaseAfter(Self, r).is_initialized
    /\ count' = KnowledgeBaseAfter(Self, r).count
    /\ chat_history' = r.chat_history
    /\ clock' = r.clock
    /\ last' = [Call(op, question, transcript, FALSE, r.escaped, r) EXCEPT
                    !.transcript_after = IF "conversation_history" \in DOMAIN r
                                         THEN r.conversation_history
                                         ELSE transcript]
    /\ UNCHANGED <<fmt, ext, load, threads, heap>>

\* the retriever and the backend answer the calls query makes: the retriever is
\* invoked once the pipeline is ready and the question valid, the backend once
\* chunks came back; a call that is not made has no outcome to draw
RetrievalsFor(self, question) ==
    IF ~NotReady(self) /\ ~Rejected(ValidationOf[question])
    THEN Retrievals(self.count)
    ELSE {[raises |-> FALSE, docs |-> <<>>]}

GenerationsFor(self, question, retrieval) ==
    IF /\ ~NotReady(self)
       /\ ~Rejected(ValidationOf[question])
       /\ ~retrieval.raises
       /\ ~NoDocuments(retrieval.docs)
    THEN Generations
    ELSE {[raises |-> FALSE, text |-> <<>>]}

Query ==
    \E question \in Questions, include_sources \in BOOLEAN :
    \E retrieval \in RetrievalsFor(Self, question) :
    \E generation \in GenerationsFor(Self, question, retrieval) :
        /\ clock < MaxClock
        /\ QueryCall("query", question, <<>>,
                     query(Self, question, include_sources, retrieval, generation))

QueryWithHistory ==
    \E question \in Questions, conversation_history \in Transcripts :
    \E retrieval \in RetrievalsFor(Self, question) :
    \E generation \in GenerationsFor(Self, question, retrieval) :
        /\ clock < MaxClock
        /\ QueryCall("query_with_history", question, conversation_history,
                     query_with_history(Self, question, conversation_history,
                                        retrieval, generation))

GetKnowledgeBaseInfo ==
    \E count_ok \in BOOLEAN :
        LET r == get_knowledge_base_info(Self, count_ok)
        IN  /\ last' = [Call("get_knowledge_base_info", <<>>, <<>>, FALSE, r.escaped,
                              NoQuery) EXCEPT !.info = r.info]
            /\ UNCHANGED <<is_initialized, chat_history, count, clock, fmt, ext, load, threads, heap>>

SearchDocuments ==
    \E max_results \in MaxResults :
        \E search \in Searches(count, max_results) :
            LET r == search_documents(Self, search)
            IN  /\ last' = [Call("search_documents", SearchQuery, <<>>, FALSE,
                                  r.escaped, NoQuery) EXCEPT !.results = r.results]
                /\ UNCHANGED <<is_initialized, chat_history, count, clock, fmt, ext, load, threads, heap>>

Next ==
    \/ InitializeKnowledgeBase
    \/ AddDocument
    \/ ResetKnowledgeBase
    \/ UpdateKnowledgeBase
    \/ ClearChatHistory
    \/ Query
    \/ QueryWithHistory
    \/ GetKnowledgeBaseInfo
    \/ SearchDocuments

Spec == Init /\ [][Next]_vars

(***************************************************************************)
(* Properties of the answer pipeline (under Spec).                         *)
(***************************************************************************)
AnswerCall == last.op \in {"query", "query_with_history"}

Invoked(stage) == \E i \in 1..Len(last.trace) : last.trace[i] = stage

\* a question that is empty or whitespace only, has fewer than 3 characters once
\* trimmed, or contains a denylisted term in any letter case
ShouldReject(question) ==
    \/ \A i \in 1..Len(question) : IsSpace(question[i])
    \/ Len(Strip(question)) < 3
    \/ \E term \in inappropriate_keywords : Contains(Lower(question), term)

\* C1: a query or query_with_history call made while is_initialized is false
\* returns the fixed "not ready" answer with an empty sources list, whatever the
\* question, and invokes neither validation, retrieval nor the generation backend.
C1_NotReadyShortCircuit ==
    (AnswerCall /\ ~last.ready) =>
        /\ last.ret.answer = NotReadyAnswer
        /\ last.ret.sources = <<>>
        /\ last.trace = <<>>
        /\ last.retrieved = "none"
        /\ last.prompt = NoPrompt

\* a not-ready call with an acceptable question on a collection that holds chunks
C1_Witness ==
    /\ last.op = "query_with_history"
    /\ ~last.ready
    /\ count > 0
    /\ ~ShouldReject(last.question)
    /\ last.transcript # <<>>
    /\ last.ret.answer = NotReadyAnswer

\* C2: is_initialized is true only while the collection holds at least one chunk.
C2_ReadyOnlyWithChunks == is_initialized => count >= 1

\* C3: on a Ready pipeline a question is rejected exactly when it is empty or
\* whitespace only, shorter than 3 characters after trimming, or contains a
\* denylisted term; a rejected question gets a guidance message and empty sources,
\* and neither retrieval nor the generation backend is invoked for it.
C3_RejectionRule ==
    (AnswerCall /\ last.ready) =>
        LET rejected == "error" \in last.ret.keys /\ last.ret.error = "Invalid question"
        IN  /\ rejected <=> ShouldReject(last.question)
            /\ rejected =>
                /\ last.ret.answer \in {DetailMessage, LegitimateMessage}
                /\ last.ret.sources = <<>>
                /\ ~Invoked("retrieve")
                /\ ~Invoked("generate")
                /\ last.retrieved = "none"
                /\ last.prompt = NoPrompt

\* a Ready pipeline rejecting a question whose denylisted term is capitalised
C3_Witness ==
    /\ AnswerCall
    /\ last.ready
    /\ count > 0
    /\ Len(Strip(last.question)) >= 3
    /\ ~(\E term \in inappropriate_keywords : Contains(last.question, term))
    /\ last.ret.error = "Invalid question"
    /\ last.ret.answer = LegitimateMessage

\* C4: for an accepted question of more than 3 words with no HR keyword, the
\* returned answer is the scope reminder followed by the generated answer.
C4_ScopeReminderPrepended ==
    (/\ AnswerCall
     /\ Invoked("generate")
     /\ WordCount(last.question) > 3
     /\ ~(\E keyword \in hr_keywords : Contains(Lower(last.question), keyword)))
        => last.ret.answer = ScopeReminder \o last.response

\* C5: on a Ready pipeline with an accepted question, a retrieval that returns no
\* chunk yields the fixed "couldn't find relevant information" answer with the
\* warning set and empty sources, and the generation backend is not called.
C5_NoResults ==
    (/\ AnswerCall
     /\ last.ready
     /\ ~ShouldReject(last.question)
     /\ last.retrieved = "returned"
     /\ last.docs = <<>>)
        => /\ last.ret.answer = NoResultsAnswer
           /\ "warning" \in last.ret.keys
           /\ last.ret.warning # ""
           /\ "error" \notin last.ret.keys
           /\ last.ret.sources = <<>>
           /\ ~Invoked("generate")
           /\ last.prompt = NoPrompt

\* a Ready pipeline whose retrieval came back empty
C5_Witness ==
    /\ AnswerCall
    /\ last.ready
    /\ ~ShouldReject(last.question)
    /\ last.retrieved = "returned"
    /\ last.docs = <<>>
    /\ last.ret.warning = "No relevant documents found"

Stages == <<"validate", "retrieve", "assemble", "generate", "record">>

\* C6: in one answer call the stages run in the order validate, retrieve,
\* assemble, generate, record, each at most once: retrieval only after validation
\* accepted the question, generation only after retrieval returned at least one
\* chunk, and the memory append only after generation returned its text.
C6_StageOrder ==
    AnswerCall =>
        /\ \E n \in 0..Len(Stages) : last.trace = SubSeq(Stages, 1, n)
        /\ Invoked("retrieve") => (last.ready /\ ~ShouldReject(last.question))
        /\ Invoked("generate") =>
              (last.retrieved = "returned" /\ last.docs # <<>>
                 /\ last.prompt.question = last.question)
        /\ Invoked("record") => (Invoked("generate") /\ last.response # <<>>)

\* a call that went through every stage
C6_Witness ==
    /\ last.op = "query"
    /\ last.trace = Stages
    /\ Len(last.docs) >= 2
    /\ chat_history # <<>>
    /\ chat_history[Len(chat_history)].answer = last.response

\* question and answer of each exchange of a history, in its order
Exchanges(history) ==
    [i \in 1..Len(history) |->
        [question |-> history[i].question, answer |-> history[i].answer]]

\* C12: after an answer call that reached generation, made through query or
\* through query_with_history, the most recent entry of chat_history is the
\* exchange of that call: its question, the answer it returned, its timestamp.
C12_ExchangeRecorded ==
    (AnswerCall /\ Invoked("generate")) =>
        /\ chat_history # <<>>
        /\ chat_history[Len(chat_history)] =
              [question |-> last.question, answer |-> last.ret.answer,
               timestamp |-> clock - 1]

\* C13: when query_with_history is called while chat_history is not empty, every
\* exchange in the prompt comes from the caller's transcript and none is an
\* exchange of chat_history.
C13_PromptHistoryFromTranscriptOnly ==
    (last.op = "query_with_history" /\ Invoked("generate") /\ chat_history # <<>>) =>
        \A i \in 1..Len(last.prompt.history) :
            /\ \E j \in 1..Len(last.transcript) :
                  Exchanges(last.transcript)[j] = last.prompt.history[i]
            /\ \A k \in 1..Len(chat_history) :
                  Exchanges(chat_history)[k] # last.prompt.history[i]

\* a transcript of one exchange passed while chat_history holds an exchange too
C13_Witness ==
    /\ last.op = "query_with_history"
    /\ Invoked("generate")
    /\ chat_history # <<>>
    /\ Len(last.transcript) = 1
    /\ last.prompt.history = Exchanges(last.transcript)

\* C14: the exchanges in the prompt are the last 5 of the caller's transcript
\* when query_with_history is called, otherwise the last 3 of chat_history as it
\* was before the call, in their original order.
C14_HistoryWindow ==
    [][(last'.op \in {"query", "query_with_history"}
           /\ \E i \in 1..Len(last'.trace) : last'.trace[i] = "generate") =>
         last'.prompt.history =
            IF last'.op = "query_with_history"
            THEN LastN(Exchanges(last'.transcript), 5)
            ELSE LastN(Exchanges(chat_history), 3)]_vars

\* the retriever or the generation backend raised during the call
BackendFailed == last.retrieved = "raised" \/ last.response = ErrorResponse

\* C18: when the retrieval or the generation call fails, the answer returned is
\* a fixed message and the text of the exception is in no field of the result.
C18_NoRawErrorText ==
    (AnswerCall /\ BackendFailed) =>
        /\ last.ret.answer \in {QueryErrorAnswer, ErrorResponse}
        /\ last.ret.error # RawErrorText
        /\ last.ret.warning # RawErrorText

\* C19: every call of a public method returns: no exception leaves it, whatever
\* the document processor, the Chroma client, the retriever and the backend
\* do; an answer call returns a dict with an answer, its sources and one of
\* success, error and warning.
C19_NoEscapingException ==
    /\ ~last.escaped
    /\ AnswerCall =>
          /\ {"answer", "sources"} \subseteq last.ret.keys
          /\ last.ret.keys \cap {"success", "error", "warning"} # {}

\* a query on a Ready pipeline whose retriever raised
C19_Witness ==
    /\ AnswerCall
    /\ last.ready
    /\ count > 0
    /\ last.retrieved = "raised"
    /\ "error" \in last.ret.keys
    /\ last.ret.answer = QueryErrorAnswer
    /\ ~last.escaped

\* C20: when the backend fails and the fallback text is returned, the result is
\* not marked as a success and no exchange with the fallback text is in
\* chat_history.
C20_OnlySuccessRecorded ==
    (AnswerCall /\ last.response = ErrorResponse) =>
        /\ "success" \notin last.ret.keys
        /\ \A i \in 1..Len(chat_history) : chat_history[i].answer # ErrorResponse

\* C21: one answer call invokes the generation backend at most once; when that
\* one invocation fails there is no second one and the fallback text is what
\* the call returns.
C21_SingleGenerationAttempt ==
    AnswerCall =>
        /\ last.invocations <= 1
        /\ last.invocations = 1 <=> Invoked("generate")
        /\ (last.invocations = 1 /\ last.response = ErrorResponse) =>
              last.ret.answer = ErrorResponse

\* a call whose only invocation of the backend failed, with a history to follow up
C21_Witness ==
    /\ last.op = "query"
    /\ last.invocations = 1
    /\ last.response = ErrorResponse
    /\ last.prompt.history # <<>>
    /\ last.ret.answer = ErrorResponse

\* C23: an answer call, whatever its outcome, leaves the number of chunks in
\* the collection and is_initialized as they were before it.
C23_AnswerLeavesKnowledgeBase ==
    [][last'.op \in {"query", "query_with_history"} =>
         (count' = count /\ is_initialized' = is_initialized)]_vars

\* a Ready pipeline with a full collection after a call whose retriever raised
C23_Witness ==
    /\ last.op = "query_with_history"
    /\ last.retrieved = "raised"
    /\ is_initialized
    /\ count = MaxCount

\* the operations that load documents into the collection
IngestOps == {"initialize_knowledge_base", "add_document", "update_knowledge_base"}

\* C26: a reset that returns True leaves the pipeline not ready with an empty
\* conversation memory and an empty collection; from then on an answer
\* operation gets the not-ready answer, and the pipeline becomes ready again
\* only by an ingest operation that returns True; a reset that returns False
\* (the deletion failed) leaves the readiness flag and the memory as they were.
C26_ResetUninitializes ==
    /\ []((last.op = "reset_knowledge_base" /\ last.ok) =>
              (~is_initialized /\ chat_history = <<>> /\ count = 0))
    /\ []((AnswerCall /\ ~last.ready) => last.ret.answer = NotReadyAnswer)
    /\ [][(~is_initialized /\ is_initialized') =>
              (last'.op \in IngestOps /\ last'.ok)]_vars
    /\ [][(last'.op = "reset_knowledge_base" /\ ~last'.ok) =>
              (is_initialized' = is_initialized /\ chat_history' = chat_history)]_vars

\* a ready pipeline has just been reset successfully
C26_Witness ==
    /\ last.op = "reset_knowledge_base"
    /\ last.ok
    /\ last.ready
    /\ ~is_initialized

\* C28: query_with_history leaves the pipeline's own conversation memory
\* exactly as it was before the call, whichever way the call ends, and the
\* list the caller passed is the same after the call as before it.
C28_HistoryRestored ==
    /\ [][last'.op = "query_with_history" => chat_history' = chat_history]_vars
    /\ [](last.op = "query_with_history" => last.transcript_after = last.transcript)

\* an answer was generated from a caller's transcript while the pipeline
\* held exchanges of its own
C28_Witness ==
    /\ last.op = "query_with_history"
    /\ last.trace = Stages
    /\ Len(last.transcript) = MaxTranscript
    /\ chat_history # <<>>

\* the call ended on one of the paths of query that return before or instead
\* of generating an answer
RejectedQuestions == {question \in Questions : ShouldReject(question)}

FailurePath(call) ==
    \/ ~call.ready
    \/ call.retrieved = "raised"
    \/ (call.retrieved = "returned" /\ call.docs = <<>>)
    \/ call.question \in RejectedQuestions

\* C29: a query that ends on the not-ready, rejected-question, no-results or
\* exception path leaves the conversation memory unchanged.
C29_FailurePathsKeepMemory ==
    [][(last'.op = "query" /\ FailurePath(last')) => chat_history' = chat_history]_vars

\* a query on a ready pipeline with exchanges in memory was turned away by
\* validation
C29_Witness ==
    /\ last.op = "query"
    /\ last.ready
    /\ last.question \in RejectedQuestions
    /\ chat_history # <<>>

\* C30: initialize, add_document and update_knowledge_base return False when
\* document processing produces no chunks, and then the readiness flag, the
\* conversation memory and the collection are as they were before the call.
C30_NoChunksNoChange ==
    [][(last'.op \in IngestOps /\ last'.processed = "nothing") =>
           /\ ~last'.ok
           /\ is_initialized' = is_initialized
           /\ chat_history' = chat_history
           /\ count' = count]_vars

\* an update that found nothing to load, on a ready pipeline with chunks
\* and exchanges
C30_Witness ==
    /\ last.op = "update_knowledge_base"
    /\ last.processed = "nothing"
    /\ is_initialized
    /\ count > 0
    /\ chat_history # <<>>

InitFormat ==
    /\ is_initialized = FALSE
    /\ chat_history = <<>>
    /\ count = 0
    /\ clock = 0
    /\ last = NoCall
    /\ fmt \in {[pc |-> "call", documents |-> d, max_length |-> m,
                 context_parts |-> <<>>, out |-> <<>>] :
                    d \in SeqsUpTo(FmtPool, MaxFmtDocs), m \in 0..MaxBudget}
    /\ ext = ExtIdle
    /\ load = LoadIdle
    /\ threads = NoThreads
    /\ heap = NoHeap

NextFormat == FormatCall

SpecFormat == InitFormat /\ [][NextFormat]_vars

(***************************************************************************)
(* Properties of format_documents_for_context (under SpecFormat).          *)
(***************************************************************************)
FormatDone == fmt.pc = "done"

\* header plus trimmed content of the i-th document handed in
ChunkText(i) ==
    DocHeader(fmt.documents[i], i) \o Strip(fmt.documents[i].page_content)

\* the characters of the first k chunks
RECURSIVE CharsUpTo(_)
CharsUpTo(k) == IF k = 0 THEN 0 ELSE CharsUpTo(k - 1) + Len(ChunkText(k))

FirstOverBudget == fmt.documents # <<>> /\ Len(ChunkText(1)) > fmt.max_length

\* the result ends with the truncation marker
Truncated ==
    /\ fmt.context_parts # <<>>
    /\ fmt.context_parts[Len(fmt.context_parts)] = TruncationMarker

\* the newlines that join the parts of the result
Separators == IF fmt.context_parts = <<>> THEN 0 ELSE Len(fmt.context_parts) - 1

C8_LengthBound ==
    FormatDone =>
        Len(fmt.out) <= fmt.max_length + Len(TruncationMarker)
                          + (IF FirstOverBudget THEN Len(ChunkText(1)) ELSE 0)
                          + Separators

\* an over-budget first chunk followed by the marker: longer than max_length plus
\* the marker
C8_Witness ==
    /\ FormatDone
    /\ FirstOverBudget
    /\ Truncated
    /\ Len(fmt.out) > fmt.max_length + Len(TruncationMarker)

\* the number of leading chunks that are included: the first always, the j-th
\* while the first j chunks together are within max_length
IncludedCount ==
    CHOOSE k \in 1..Len(fmt.documents) :
        /\ \A j \in 2..k : CharsUpTo(j) <= fmt.max_length
        /\ k < Len(fmt.documents) => CharsUpTo(k + 1) > fmt.max_length

\* C9: the context is the first chunks of the input, in order and each whole
\* (header, then trimmed content), joined by newlines; the truncation marker
\* follows exactly when a chunk after the first did not fit the running total,
\* and nothing after that chunk is included.
C9_WholeChunkPrefix ==
    (FormatDone /\ fmt.documents # <<>>) =>
        LET k == IncludedCount
            chunks == [i \in 1..k |-> ChunkText(i)]
        IN  fmt.out = Join(IF k < Len(fmt.documents)
                           THEN Append(chunks, TruncationMarker)
                           ELSE chunks,
                           <<"\n">>)

\* the second chunk does not fit although the third would
C9_Witness ==
    /\ FormatDone
    /\ Len(fmt.documents) = 3
    /\ Truncated
    /\ Len(fmt.context_parts) = 2
    /\ Len(ChunkText(1)) + Len(ChunkText(3)) <= fmt.max_length

\* C10: a non-empty chunk sequence never gives an empty context: the first chunk
\* is included in full even when it alone exceeds max_length, and then nothing of
\* a later chunk follows it (only the truncation marker, when there are more).
C10_FirstChunkAlways ==
    (FormatDone /\ fmt.documents # <<>>) =>
        /\ fmt.out # <<>>
        /\ Len(fmt.out) >= Len(ChunkText(1))
        /\ SubSeq(fmt.out, 1, Len(ChunkText(1))) = ChunkText(1)
        /\ FirstOverBudget =>
              fmt.out = IF Len(fmt.documents) = 1 THEN ChunkText(1)
                        ELSE ChunkText(1) \o <<"\n">> \o TruncationMarker

\* an over-budget first chunk with two more behind it
C10_Witness ==
    /\ FormatDone
    /\ FirstOverBudget
    /\ Len(fmt.documents) = 3
    /\ Len(fmt.out) > Len(ChunkText(1))

(***************************************************************************)
(* The conversation memory over a long run: one user asking the same       *)
(* question again and again, with every knowledge-base operation and the   *)
(* clearing of the history in between.  query_with_history puts the        *)
(* history back as it found it, so it is left to the runs of Spec.         *)
(***************************************************************************)
MemoryQuestion == <<"s","i","c","k"," ","l","e","a","v","e">>

InitMemory ==
    /\ is_initialized = FALSE
    /\ chat_history = <<>>
    /\ count = 1
    /\ clock = 0
    /\ last = NoCall
    /\ fmt = FmtIdle
    /\ ext = ExtIdle
    /\ load = LoadIdle
    /\ threads = NoThreads
    /\ heap = NoHeap

MemoryQuery ==
    \E retrieval \in Retrievals(count), generation \in {g \in Generations : ~g.raises} :
        /\ clock < MaxExchanges
        /\ QueryCall("query", MemoryQuestion, <<>>,
                     query(Self, MemoryQuestion, TRUE, retrieval, generation))

NextMemory ==
    \/ InitializeKnowledgeBase
    \/ AddDocument
    \/ ResetKnowledgeBase
    \/ UpdateKnowledgeBase
    \/ ClearChatHistory
    \/ MemoryQuery

SpecMemory == InitMemory /\ [][NextMemory]_vars

\* the exchange that the call recorded in last' appends, stamped with the clock
\* read before the call
NewExchange == [question |-> last'.question, answer |-> last'.ret.answer,
                timestamp |-> clock]

\* C11: chat_history never holds more than 10 exchanges and holds them in
\* chronological order, most recent last; a successful query appends its
\* exchange and, when that makes 11, drops the oldest, so that the history is
\* the last 10 of the exchanges recorded since it was last emptied.
C11_BoundedFifoMemory ==
    /\ [](/\ Len(chat_history) <= 10
          /\ \A i \in 1..(Len(chat_history) - 1) :
                chat_history[i].timestamp < chat_history[i + 1].timestamp)
    /\ [][(last'.op = "query" /\ last'.trace = Stages) =>
             chat_history' = LastN(Append(chat_history, NewExchange), 10)]_vars

\* after 12 answered queries in a row the history holds the exchanges 3 to 12
C11_Witness ==
    /\ last.op = "query"
    /\ clock = MaxExchanges
    /\ Len(chat_history) = 10
    /\ \A i \in 1..10 : chat_history[i].timestamp = clock - 11 + i

(***************************************************************************)
(* Calls of _extract_sources on their own: the retrieved chunks are drawn  *)
(* when the run starts, ExtractCall applies the method.                    *)
(***************************************************************************)
\* chunks of five (file, page) pairs: two of the same page with different
\* contents, contents of fewer than 200, of exactly 200 and of more than 200
\* characters (one of them ending with three dots), one chunk without metadata
\* and one without source_file
SrcPool ==
    { [metadata |-> [source_file |-> FileA, page |-> 0],
       page_content |-> <<" ","l","e","a","v","e","\n">>],
      [metadata |-> [source_file |-> FileA, page |-> 0],
       page_content |-> Rep("y", 201)],
      [metadata |-> [source_file |-> FileHR, page |-> 12],
       page_content |-> Rep("z", 200)],
      [metadata |-> [source_file |-> FileA, page |-> 3],
       page_content |-> Rep("w", 199) \o <<".",".",".">>],
      [metadata |-> <<>>,
       page_content |-> Rep("v", 260)],
      [metadata |-> [page |-> 3],
       page_content |-> <<"p","a","y">>] }

InitSources ==
    /\ is_initialized = FALSE
    /\ chat_history = <<>>
    /\ count = 0
    /\ clock = 0
    /\ last = NoCall
    /\ fmt = FmtIdle
    /\ ext \in {[pc |-> "call", documents |-> d, sources |-> <<>>] :
                    d \in SeqsUpTo(SrcPool, MaxSrcDocs)}
    /\ load = LoadIdle
    /\ threads = NoThreads
    /\ heap = NoHeap

NextSources == ExtractCall

SpecSources == InitSources /\ [][NextSources]_vars

(***************************************************************************)
(* Properties of _extract_sources (under SpecSources).                     *)
(***************************************************************************)
ExtractDone == ext.pc = "done"

\* the (file, page) pair of the i-th chunk handed in, as the sources report it
PairOf(i) ==
    <<MetaGet(ext.documents[i].metadata, "source_file", UnknownFile),
      IF "page" \in DOMAIN ext.documents[i].metadata
      THEN Str(ext.documents[i].metadata["page"]) ELSE NotAvailable>>

\* the chunks that are the first of their (file, page) pair
FirstSeen ==
    {i \in 1..Len(ext.documents) : \A j \in 1..(i - 1) : PairOf(j) # PairOf(i)}

\* the k-th of them in the order of the input
NthFirstSeen(k) ==
    CHOOSE i \in FirstSeen : Cardinality({j \in FirstSeen : j <= i}) = k

\* C15: the sources hold one entry per distinct (file, page) pair of the chunks,
\* in the order in which the pairs first occur; the preview of an entry starts
\* as the content of the first chunk of its pair does, whatever later chunks of
\* that pair contain.
C15_OneSourcePerPair ==
    ExtractDone =>
        /\ Len(ext.sources) = Cardinality(FirstSeen)
        /\ \A k \in 1..Len(ext.sources) :
              LET i == NthFirstSeen(k)
                  content == ext.documents[i].page_content
                  n == Min(Len(content), 200)
              IN  /\ <<ext.sources[k].file, ext.sources[k].page>> = PairOf(i)
                  /\ Len(ext.sources[k].content_preview) >= n
                  /\ SubSeq(ext.sources[k].content_preview, 1, n) = SubSeq(content, 1, n)

\* four chunks of three pairs: the second chunk repeats the pair of the first
\* with another content, and two pairs share their file
C15_Witness ==
    /\ ExtractDone
    /\ Len(ext.documents) = 4
    /\ PairOf(1) = PairOf(2)
    /\ ext.documents[1].page_content # ext.documents[2].page_content
    /\ PairOf(3)[1] = PairOf(1)[1]
    /\ PairOf(3)[2] # PairOf(1)[2]
    /\ Len(ext.sources) = 3

\* C16: the sources list of an answer never has more than 3 entries.
C16_AtMostThreeSources ==
    ExtractDone => Len(ext.sources) <= 3

\* C17: a preview is the content itself when the content has at most 200
\* characters, and its first 200 characters followed by "..." otherwise; the
\* preview is 203 characters long and ends with the added "..." exactly when
\* the content has more than 200 characters.
C17_PreviewRule ==
    ExtractDone =>
        \A k \in 1..Len(ext.sources) :
            LET content == ext.documents[NthFirstSeen(k)].page_content
                preview == ext.sources[k].content_preview
            IN  /\ Len(content) <= 200 => preview = content
                /\ Len(content) > 200 =>
                      preview = [j \in 1..203 |-> IF j <= 200 THEN content[j] ELSE "."]
                /\ Len(content) > 200 <=> Len(preview) = 203

\* previews of a content of exactly 200 characters, of one of 202 characters
\* that ends with three dots and of one of 260 characters
C17_Witness ==
    /\ ExtractDone
    /\ \E k \in 1..Len(ext.sources) : Len(ext.sources[k].content_preview) = 200
    /\ \E k \in 1..Len(ext.sources) :
          /\ Len(ext.documents[NthFirstSeen(k)].page_content) = 202
          /\ Len(ext.sources[k].content_preview) = 203
    /\ \E k \in 1..Len(ext.sources) :
          Len(ext.documents[NthFirstSeen(k)].page_content) = 260

(***************************************************************************)
(* DocumentProcessor.load_documents_from_directory.  A PDF file is its     *)
(* name, its pages and whether PyPDFLoader raises on it; the directory is  *)
(* the list that glob("*.pdf") returns.                                    *)
(***************************************************************************)
\* load_pdf: raises, or returns the pages with source_file set
load_pdf(file) ==
    IF file.fails
    THEN [raises |-> TRUE, documents |-> <<>>]
    ELSE [raises |-> FALSE,
          documents |-> [k \in 1..Len(file.pages) |->
                            [page_content |-> file.pages[k],
                             metadata |-> [source_file |-> file.name, page |-> k - 1]]]]

\* the loop left at the first file that fails to load (break instead of continue)
RECURSIVE LoadLoop_StopAtFailure(_, _, _)
LoadLoop_StopAtFailure(pdf_files, i, all_documents) ==
    IF i > Len(pdf_files) THEN all_documents
    ELSE LET r == load_pdf(pdf_files[i])
         IN  IF r.raises
             THEN all_documents
             ELSE LoadLoop_StopAtFailure(pdf_files, i + 1, all_documents \o r.documents)

\* for pdf_file in pdf_files: try load_pdf and extend, except log and continue
RECURSIVE LoadLoop(_, _, _)
LoadLoop(pdf_files, i, all_documents) ==
    IF i > Len(pdf_files) THEN all_documents
    ELSE LET r == load_pdf(pdf_files[i])
         IN  IF r.raises
             THEN LoadLoop(pdf_files, i + 1, all_documents)
             ELSE LoadLoop(pdf_files, i + 1, all_documents \o r.documents)

load_documents_from_directory(exists, pdf_files) ==
    IF ~exists THEN <<>>
    ELSE IF pdf_files = <<>> THEN <<>>
    ELSE LoadLoop(pdf_files, 1, <<>>)

FileB == <<"b",".","p","d","f">>

FileEmpty == <<"e",".","p","d","f">>

\* the files a directory may hold: of two pages, of one page, without pages;
\* each loads or fails
FilePool ==
    { [name |-> n.name, pages |-> n.pages, fails |-> f] :
        n \in { [name |-> FileA, pages |-> <<Rep("x", 2), Rep("y", 1)>>],
                [name |-> FileHR, pages |-> <<Rep("z", 3)>>],
                [name |-> FileB, pages |-> <<Rep("w", 2)>>],
                [name |-> FileEmpty, pages |-> <<>>] },
        f \in BOOLEAN }

\* the listings of a directory: no file name twice
Directories ==
    {d \in SeqsUpTo(FilePool, MaxFiles) :
        \A i, j \in 1..Len(d) : i # j => d[i].name # d[j].name}

LoadCall ==
    /\ load.pc = "call"
    /\ load' = [load EXCEPT !.pc = "done",
                            !.all_documents =
                                load_documents_from_directory(load.exists, load.pdf_files)]
    /\ UNCHANGED <<is_initialized, chat_history, count, clock, last, fmt, ext,
                   threads, heap>>

InitLoad ==
    /\ is_initialized = FALSE
    /\ chat_history = <<>>
    /\ count = 0
    /\ clock = 0
    /\ last = NoCall
    /\ fmt = FmtIdle
    /\ ext = ExtIdle
    /\ load \in {[pc |-> "call", exists |-> TRUE, pdf_files |-> d,
                   all_documents |-> <<>>] : d \in Directories}
                \cup {[pc |-> "call", exists |-> FALSE, pdf_files |-> <<>>,
                       all_documents |-> <<>>]}
    /\ threads = NoThreads
    /\ heap = NoHeap

NextLoad == LoadCall

SpecLoad == InitLoad /\ [][NextLoad]_vars

(***************************************************************************)
(* Properties of the batch load (under SpecLoad).                          *)
(***************************************************************************)
LoadDone == load.pc = "done"

\* the pages of the loadable files among the first n of the directory
RECURSIVE LoadablePages(_)
LoadablePages(n) ==
    IF n = 0 THEN 0
    ELSE LoadablePages(n - 1)
            + (IF load.pdf_files[n].fails THEN 0 ELSE Len(load.pdf_files[n].pages))

\* C22: whichever files of the directory fail to load, the pages returned are
\* the pages of every file that loads, file after file and page after page,
\* and nothing of a file that failed.
C22_FailedFilesSkipped ==
    LoadDone =>
        /\ Len(load.all_documents) = LoadablePages(Len(load.pdf_files))
        /\ \A i \in 1..Len(load.pdf_files) :
              ~load.pdf_files[i].fails =>
                \A k \in 1..Len(load.pdf_files[i].pages) :
                    LET doc == load.all_documents[LoadablePages(i - 1) + k]
                    IN  /\ doc.page_content = load.pdf_files[i].pages[k]
                        /\ doc.metadata.source_file = load.pdf_files[i].name
        /\ \A i \in 1..Len(load.pdf_files) :
              load.pdf_files[i].fails =>
                \A j \in 1..Len(load.all_documents) :
                    load.all_documents[j].metadata.source_file # load.pdf_files[i].name

\* three files of which the first and the second fail: the pages of the third
\* are returned
C22_Witness ==
    /\ LoadDone
    /\ Len(load.pdf_files) = 3
    /\ load.pdf_files[1].fails
    /\ load.pdf_files[2].fails
    /\ ~load.pdf_files[3].fails
    /\ Len(load.all_documents) = 2

(***************************************************************************)
(* Two calls in progress on one RAGPipeline (the Gradio server runs its    *)
(* handlers on worker threads and the pipeline takes no lock).  A call is  *)
(* a sequence of steps, one per read or write of a shared field; the steps *)
(* of the two calls interleave freely.  heap holds the list objects: the   *)
(* one the pipeline started with ("H"), the slices conversation_history    *)
(* [-5:] and chat_history[-10:] that a call creates, and the empty lists   *)
(* that reset and update assign.  chat_history is always the value of the  *)
(* object self.chat_history refers to.  The run starts on a Ready pipeline *)
(* with one chunk whose history is empty or full (10 exchanges), as        *)
(* SpecMemory reaches them.                                                *)
(***************************************************************************)
Threads == {1, 2}

ThreadOps ==
    {"query", "query_with_history", "update_knowledge_base", "reset_knowledge_base"}

\* the question each call asks and the transcript each caller passes
ThreadQuestion ==
    <<MemoryQuestion, <<"b","a","k","e"," ","a"," ","c","a","k","e">> >>

ThreadTranscript == <<Transcript(1), Transcript(2)>>

SwapId == <<"swap1", "swap2">>

CutId == <<"cut1", "cut2">>

NewId == <<"new1", "new2">>

ObjIds == {"H", "swap1", "swap2", "cut1", "cut2", "new1", "new2"}

\* n exchanges recorded by n answered queries, as a run of SpecMemory leaves them
History(n) ==
    [i \in 1..n |-> [question |-> MemoryQuestion, answer |-> GeneratedText,
                     timestamp |-> i - 1]]

NoExchange == [question |-> <<>>, answer |-> <<>>, timestamp |-> 0]

IdleThread ==
    [op |-> "none", pc |-> "idle", question |-> <<>>, transcript |-> <<>>,
     original |-> "H", cut |-> <<>>, docs |-> <<>>, rebuilding |-> FALSE,
     history |-> <<>>, response |-> <<>>, exchange |-> NoExchange,
     outcome |-> "none"]

InitThreads ==
    /\ is_initialized = TRUE
    /\ count = 1
    /\ chat_history \in {History(0), History(10)}
    /\ clock = Len(chat_history)
    /\ last = NoCall
    /\ fmt = FmtIdle
    /\ ext = ExtIdle
    /\ load = LoadIdle
    /\ threads = [t \in Threads |-> IdleThread]
    /\ heap = [ref |-> "H",
               objs |-> [o \in ObjIds |-> IF o = "H" THEN chat_history ELSE <<>>],
               start |-> chat_history]

\* the list self.chat_history refers to
Current == heap.objs[heap.ref]

\* thread t moves on with the given locals; the shared fields stay
Local(t, new) ==
    /\ threads' = [threads EXCEPT ![t] = new]
    /\ UNCHANGED <<is_initialized, chat_history, count, clock, heap>>

\* self.chat_history = <the list obj with value v>
AssignHistory(obj, v) ==
    /\ heap' = [heap EXCEPT !.ref = obj, !.objs[obj] = v]
    /\ chat_history' = v

Frame == UNCHANGED <<last, fmt, ext, load>>

\* a call is made
Begin(t) ==
    \E op \in ThreadOps :
        /\ threads[t].pc = "idle"
        /\ Local(t, [threads[t] EXCEPT
                        !.op = op,
                        !.question = IF op \in {"query", "query_with_history"}
                                     THEN ThreadQuestion[t] ELSE <<>>,
                        !.transcript = IF op = "query_with_history"
                                       THEN ThreadTranscript[t] ELSE <<>>,
                        !.pc = CASE op = "query" -> "q_ready"
                                 [] op = "query_with_history" -> "h_save"
                                 [] op = "update_knowledge_base" -> "u_process"
                                 [] op = "reset_knowledge_base" -> "r_delete"])
        /\ Frame

\* query_with_history: original_history = self.chat_history
HSave(t) ==
    /\ threads[t].pc = "h_save"
    /\ Local(t, [threads[t] EXCEPT !.original = heap.ref, !.pc = "h_swap"])
    /\ Frame

\* query_with_history: self.chat_history = conversation_history[-5:]
HSwap(t) ==
    /\ threads[t].pc = "h_swap"
    /\ AssignHistory(SwapId[t], LastN(threads[t].transcript, 5))
    /\ threads' = [threads EXCEPT ![t].pc = "q_ready"]
    /\ UNCHANGED <<is_initialized, count, clock>>
    /\ Frame

\* where a call goes when query returns
AfterQuery(t) == IF threads[t].op = "query_with_history" THEN "h_restore" ELSE "done"

\* query: the readiness check and validate_question
QReady(t) ==
    /\ threads[t].pc = "q_ready"
    /\ Local(t, IF NotReady(Self)
                THEN [threads[t] EXCEPT !.outcome = "not_ready", !.pc = AfterQuery(t)]
                ELSE IF Rejected(ValidationOf[threads[t].question])
                THEN [threads[t] EXCEPT !.outcome = "rejected", !.pc = AfterQuery(t)]
                ELSE [threads[t] EXCEPT !.pc = "q_retrieve"])
    /\ Frame

\* update_documents of another call has deleted the collection and not yet
\* added the new chunks
Rebuilding(t) == \E u \in Threads \ {t} : threads[u].pc = "u_add"

\* query: retriever.invoke returns the nearest chunks of the collection as it is
QRetrieve(t) ==
    /\ threads[t].pc = "q_retrieve"
    /\ LET retrieved_docs ==
             [i \in 1..Min(count, MAX_RETRIEVAL_DOCS) |->
                 [metadata |-> [source_file |-> FileA, page |-> 0],
                  page_content |-> <<" ","l","e","a","v","e","\n">>]]
       IN  Local(t, IF NoDocuments(retrieved_docs)
                    THEN [threads[t] EXCEPT !.docs = retrieved_docs,
                                            !.rebuilding = Rebuilding(t),
                                            !.outcome = "no_results",
                                            !.pc = AfterQuery(t)]
                    ELSE [threads[t] EXCEPT !.docs = retrieved_docs,
                                            !.rebuilding = Rebuilding(t),
                                            !.pc = "q_generate"])
    /\ Frame

\* query: generate_followup_response with self.chat_history, or generate_response
QGenerate(t) ==
    /\ threads[t].pc = "q_generate"
    /\ LET generation == [raises |-> FALSE, text |-> GeneratedText]
           response ==
               IF Current # <<>>
               THEN generate_followup_response(threads[t].question, <<>>, Current,
                                               generation)
               ELSE generate_response(threads[t].question, <<>>, generation)
       IN  Local(t, [threads[t] EXCEPT !.history = response.prompt.history,
                                       !.response = response.text,
                                       !.pc = "q_append"])
    /\ Frame

\* query: self.chat_history.append({...})
QAppend(t) ==
    /\ threads[t].pc = "q_append"
    /\ LET exchange == [question |-> threads[t].question,
                        answer |-> threads[t].response, timestamp |-> clock]
       IN  /\ AssignHistory(heap.ref, Append(Current, exchange))
           /\ threads' = [threads EXCEPT ![t].exchange = exchange, ![t].pc = "q_len"]
    /\ clock' = clock + 1
    /\ UNCHANGED <<is_initialized, count>>
    /\ Frame

\* query: if len(self.chat_history) > 10
QLen(t) ==
    /\ threads[t].pc = "q_len"
    /\ Local(t, IF Len(Current) > 10
                THEN [threads[t] EXCEPT !.pc = "q_slice"]
                ELSE [threads[t] EXCEPT !.outcome = "success", !.pc = AfterQuery(t)])
    /\ Frame

\* query: the right-hand side self.chat_history[-10:]
QSlice(t) ==
    /\ threads[t].pc = "q_slice"
    /\ Local(t, [threads[t] EXCEPT !.cut = LastN(Current, 10), !.pc = "q_assign"])
    /\ Frame

\* query: self.chat_history = <that slice>
QAssign(t) ==
    /\ threads[t].pc = "q_assign"
    /\ AssignHistory(CutId[t], threads[t].cut)
    /\ threads' = [threads EXCEPT ![t].outcome = "success", ![t].pc = AfterQuery(t)]
    /\ UNCHANGED <<is_initialized, count, clock>>
    /\ Frame

\* query_with_history: finally self.chat_history = original_history
HRestore(t) ==
    /\ threads[t].pc = "h_restore"
    /\ heap' = [heap EXCEPT !.ref = threads[t].original]
    /\ chat_history' = heap.objs[threads[t].original]
    /\ threads' = [threads EXCEPT ![t].pc = "done"]
    /\ UNCHANGED <<is_initialized, count, clock>>
    /\ Frame

\* update_knowledge_base: process_documents yields chunks
UProcess(t) ==
    /\ threads[t].pc = "u_process"
    /\ Local(t, [threads[t] EXCEPT !.pc = "u_delete"])
    /\ Frame

\* update_documents: self.delete_collection()
UDelete(t) ==
    /\ threads[t].pc = "u_delete"
    /\ count' = delete_collection(count, "ok").count
    /\ threads' = [threads EXCEPT ![t].pc = "u_add"]
    /\ UNCHANGED <<is_initialized, chat_history, clock, heap>>
    /\ Frame

\* update_documents: self.add_documents(new_documents), one chunk
UAdd(t) ==
    /\ threads[t].pc = "u_add"
    /\ count' = add_documents(count, 1, [raises |-> FALSE, kept |-> 0]).count
    /\ threads' = [threads EXCEPT ![t].pc = "u_clear"]
    /\ UNCHANGED <<is_initialized, chat_history, clock, heap>>
    /\ Frame

\* update_knowledge_base: self.chat_history = []
UClear(t) ==
    /\ threads[t].pc = "u_clear"
    /\ AssignHistory(NewId[t], <<>>)
    /\ threads' = [threads EXCEPT ![t].pc = "u_ready"]
    /\ UNCHANGED <<is_initialized, count, clock>>
    /\ Frame

\* update_knowledge_base: self.is_initialized = True
UReady(t) ==
    /\ threads[t].pc = "u_ready"
    /\ is_initialized' = TRUE
    /\ threads' = [threads EXCEPT ![t].outcome = "success", ![t].pc = "done"]
    /\ UNCHANGED <<chat_history, count, clock, heap>>
    /\ Frame

\* reset_knowledge_base: self.vector_store.delete_collection()
RDelete(t) ==
    /\ threads[t].pc = "r_delete"
    /\ count' = delete_collection(count, "ok").count
    /\ threads' = [threads EXCEPT ![t].pc = "r_clear"]
    /\ UNCHANGED <<is_initialized, chat_history, clock, heap>>
    /\ Frame

\* reset_knowledge_base: self.chat_history = []
RClear(t) ==
    /\ threads[t].pc = "r_clear"
    /\ AssignHistory(NewId[t], <<>>)
    /\ threads' = [threads EXCEPT ![t].pc = "r_flag"]
    /\ UNCHANGED <<is_initialized, count, clock>>
    /\ Frame

\* reset_knowledge_base: self.is_initialized = False
RFlag(t) ==
    /\ threads[t].pc = "r_flag"
    /\ is_initialized' = FALSE
    /\ threads' = [threads EXCEPT ![t].outcome = "success", ![t].pc = "done"]
    /\ UNCHANGED <<chat_history, count, clock, heap>>
    /\ Frame

NextThreads ==
    \E t \in Threads :
        \/ Begin(t)
        \/ HSave(t)
        \/ HSwap(t)
        \/ QReady(t)
        \/ QRetrieve(t)
        \/ QGenerate(t)
        \/ QAppend(t)
        \/ QLen(t)
        \/ QSlice(t)
        \/ QAssign(t)
        \/ HRestore(t)
        \/ UProcess(t)
        \/ UDelete(t)
        \/ UAdd(t)
        \/ UClear(t)
        \/ UReady(t)
        \/ RDelete(t)
        \/ RClear(t)
        \/ RFlag(t)

SpecThreads == InitThreads /\ [][NextThreads]_vars

(***************************************************************************)
(* Properties of concurrent calls (under SpecThreads).                     *)
(***************************************************************************)
\* the shared list and the variable that stands for it agree
HeapConsistent == chat_history = heap.objs[heap.ref]

BothDone(op) == \A t \in Threads : threads[t].op = op /\ threads[t].pc = "done"

\* C24: no query performs its retrieval while an update of another call is
\* between deleting the collection and adding the new chunks, and no query
\* that passed the readiness check finds the collection empty.
C24_RetrievalExcluded ==
    \A t \in Threads :
        /\ ~threads[t].rebuilding
        /\ threads[t].outcome # "no_results"

\* C25: when two concurrent query calls have both returned successfully,
\* the two newest entries of chat_history are the exchanges of these calls.
C25_NoLostExchange ==
    (BothDone("query") /\ \A t \in Threads : threads[t].outcome = "success") =>
        /\ Len(chat_history) >= 2
        /\ {chat_history[Len(chat_history) - 1], chat_history[Len(chat_history)]}
              = {threads[t].exchange : t \in Threads}

\* C27: when two concurrent query_with_history calls have both returned,
\* chat_history is what it was before either of them started.
C27_SwapInvisible ==
    BothDone("query_with_history") => chat_history = heap.start

====
